---- MODULE Spec2Model ----
(***************************************************************************)
(* Texture atlas generation: the rectangle packer (rect_solver.rs), the    *)
(* Loader task primitive (sync/loader.rs) and the AtlasBuilder / build     *)
(* protocol (graphics/image/atlas/mod.rs).                                 *)
(*                                                                         *)
(* SolverSpec runs Solver::solve on every rect list, padding, max_dims and *)
(* rotation flag of the bounded input sets, one loop iteration per step.   *)
(***************************************************************************)
EXTENDS Integers, Sequences, FiniteSets, TLC

\* ------------------------------------------------------------- bounds

\* Longest rect list handed to Solver::solve.
MaxRects == 3
\* Rect sides, paddings and max_dims the solver is run on: max_dims 5 with
\* sides up to 3 is test_rect_solver's case, and 2^16 is the smallest max_dims
\* whose square leaves u32.
RectSides == 1 .. 3
PadChoices == {<<0, 0>>, <<1, 1>>, <<0, 1>>, <<2, 2>>}
MaxDimsChoices == {3, 4, 5, 8, 2 ^ 16}

\* Entries one builder may hold, loaders the caller may create for add_loader
\* and worker threads of the rayon pool.
MaxEntries == 2
MaxCallerLoaders == 2
MaxThreads == 2
\* Entry names, image sizes and setter arguments the caller chooses from.
Names == {"a", "b", "c"}
ImageDims == {<<1, 1>>, <<3, 2>>}
\* Sizes of the images in the bytes the caller hands to add_data.
DataImageDims == {<<3, 2>>}
\* Sizes of the images the caller makes loaders of.
LoadedImageDims == {<<1, 1>>}
SpawnedImageDims == {<<3, 2>>}
SetMaxDimsChoices == {4, 2 ^ 16}
SetPaddingChoices == {<<0, 0>>}

\* ------------------------------------------------------- u32 arithmetic

\* TLC integers end at 2^31 - 1, so a u32 is handled as two 16-bit halves
\* wherever a result can leave 32 bits.  Operands of the model stay below
\* 2^30, where the sums of solve cannot overflow; its products can.
Lo16(v) == v % 65536
Hi16(v) == v \div 65536

\* a * b in u32: ovf is the overflow a build with overflow checks panics on,
\* val the wrapped product a build without them goes on with.
MulU32(a, b) ==
    LET ll == Lo16(a) * Lo16(b)
        cross == Hi16(a) * Lo16(b) + Lo16(a) * Hi16(b) + Hi16(ll)
    IN  [ovf |-> (Hi16(a) * Hi16(b) > 0) \/ (cross >= 65536),
         val |-> (cross % 65536) * 65536 + Lo16(ll)]

\* (x as f32).sqrt() as u32: below 2^24 the conversion is exact and the
\* correctly rounded root truncates to the integer square root.
SqrtF32(x) == CHOOSE k \in 0 .. x : k * k <= x /\ (k + 1) * (k + 1) > x

RECURSIVE next_pot_loop(_, _, _)
next_pot_loop(self, v, i) ==
    IF v < self THEN next_pot_loop(self, v * 2, i + 1) ELSE i

\* NextPot::next_pot for u32: the exponent of the smallest power of two that
\* is not below self.
next_pot(self) == next_pot_loop(self, 1, 0)

\* A candidate side that grows by two per step instead of doubling.
PowF32Linear(p) == 2 * p

\* 2.0f32.powf(p as f32) as u32
PowF32(p) == 2 ^ p

\* ------------------------------------------------------------- rects

Rect(w, h) == [pos |-> <<0, 0>>, size |-> <<w, h>>, rotated |-> FALSE]

Space(pos, size) == [pos |-> pos, size |-> size]

with_params(max_dims, padding, can_rotate) ==
    [max_dims |-> max_dims, padding |-> padding, can_rotate |-> can_rotate]

RectShapes == {Rect(w, h) : w \in RectSides, h \in RectSides}

RectLists == UNION {[1 .. n -> RectShapes] : n \in 0 .. MaxRects}

\* The results of solve.  Panic is the abort of a build with overflow checks.
Ok(dim) == [tag |-> "Ok", dims |-> <<dim, dim>>, err |-> ""]
Err(e) == [tag |-> "Err", dims |-> <<0, 0>>, err |-> e]
Panic == [tag |-> "Panic", dims |-> <<0, 0>>, err |-> ""]
NoResult == [tag |-> "None", dims |-> <<0, 0>>, err |-> ""]

\* ------------------------------------------------- solve_for, one rect

\* The fit test of one rect against one free space: lines 81-90.
FitTest(rect, space, px, py, can_rotate) ==
    LET fits0 == ~(rect.size[1] + px > space.size[1]
                   \/ rect.size[2] + py > space.size[2])
        tryRot == ~fits0 /\ can_rotate
                  /\ (rect.size[2] + px > space.size[1]
                      \/ rect.size[1] + py > space.size[2])
    IN  [fits |-> IF tryRot THEN FALSE ELSE fits0, rotated |-> tryRot]

LastFit(rect, spaces, px, py, can_rotate) ==
    LET hits == {i \in 1 .. Len(spaces) :
                    FitTest(rect, spaces[i], px, py, can_rotate).fits}
    IN  IF hits = {} THEN 0
        ELSE CHOOSE i \in hits : \A j \in hits : j <= i

\* The index of the first space of the list the rect fits into, 0 if none.
FirstFit(rect, spaces, px, py, can_rotate) ==
    LET hits == {i \in 1 .. Len(spaces) :
                    FitTest(rect, spaces[i], px, py, can_rotate).fits}
    IN  IF hits = {} THEN 0
        ELSE CHOOSE i \in hits : \A j \in hits : i <= j

\* A placement that insets the rect by the doubled padding px, py.
PlaceRectDoublePad(rect, space, pads, rotated) ==
    [pos |-> <<space.pos[1] + pads[1] * 2, space.pos[2] + pads[2] * 2>>,
     size |-> IF rotated THEN <<rect.size[2], rect.size[1]>> ELSE rect.size,
     rotated |-> rotated]

\* The rect as placed into the space: lines 92-94.
PlaceRect(rect, space, pads, rotated) ==
    [pos |-> <<space.pos[1] + pads[1], space.pos[2] + pads[2]>>,
     size |-> IF rotated THEN <<rect.size[2], rect.size[1]>> ELSE rect.size,
     rotated |-> rotated]

RemoveAt(s, i) == SubSeq(s, 1, i - 1) \o SubSeq(s, i + 1, Len(s))

\* A split whose bottom remainder keeps the full width of the space, as in
\* the algorithm the solver was adapted from, next to a full-height right one.
SplitSpaceFullWidthBottom(spaces, i, placed, px, py) ==
    LET space == spaces[i]
        rw == placed.size[1] + px
        rh == placed.size[2] + py
    IN  IF space.size[1] = rw /\ space.size[2] = rh
        THEN RemoveAt(spaces, i)
        ELSE IF space.size[2] = rh
        THEN [spaces EXCEPT ![i] =
                Space(<<space.pos[1] + rw, space.pos[2]>>,
                      <<space.size[1] - rw, space.size[2]>>)]
        ELSE IF space.size[1] = rw
        THEN [spaces EXCEPT ![i] =
                Space(<<space.pos[1], space.pos[2] + rh>>,
                      <<space.size[1], space.size[2] - rh>>)]
        ELSE Append([spaces EXCEPT ![i] =
                        Space(<<space.pos[1], space.pos[2] + rh>>,
                              <<space.size[1], space.size[2] - rh>>)],
                    Space(<<space.pos[1] + rw, space.pos[2]>>,
                          <<space.size[1] - rw, space.size[2]>>))

\* A split that keeps the bottom remainder only.
SplitSpaceBottomOnly(spaces, i, placed, px, py) ==
    LET space == spaces[i]
        rw == placed.size[1] + px
        rh == placed.size[2] + py
    IN  IF space.size[1] = rw /\ space.size[2] = rh
        THEN RemoveAt(spaces, i)
        ELSE IF space.size[2] = rh
        THEN [spaces EXCEPT ![i] =
                Space(<<space.pos[1] + rw, space.pos[2]>>,
                      <<space.size[1] - rw, space.size[2]>>)]
        ELSE IF space.size[1] = rw
        THEN [spaces EXCEPT ![i] =
                Space(<<space.pos[1], space.pos[2] + rh>>,
                      <<space.size[1], space.size[2] - rh>>)]
        ELSE [spaces EXCEPT ![i] =
                Space(<<space.pos[1], space.pos[2] + rh>>,
                      <<rw, space.size[2] - rh>>)]

\* The free-space list after the placed rect took its corner of spaces[i]:
\* lines 98-133.
SplitSpace(spaces, i, placed, px, py) ==
    LET space == spaces[i]
        rw == placed.size[1] + px
        rh == placed.size[2] + py
    IN  IF space.size[1] = rw /\ space.size[2] = rh
        THEN RemoveAt(spaces, i)
        ELSE IF space.size[2] = rh
        THEN [spaces EXCEPT ![i] =
                Space(<<space.pos[1] + rw, space.pos[2]>>,
                      <<space.size[1] - rw, space.size[2]>>)]
        ELSE IF space.size[1] = rw
        THEN [spaces EXCEPT ![i] =
                Space(<<space.pos[1], space.pos[2] + rh>>,
                      <<space.size[1], space.size[2] - rh>>)]
        ELSE Append([spaces EXCEPT ![i] =
                        Space(<<space.pos[1], space.pos[2] + rh>>,
                              <<rw, space.size[2] - rh>>)],
                    Space(<<space.pos[1] + rw, space.pos[2]>>,
                          <<space.size[1] - rw, space.size[2]>>))

\* One iteration of the 'outer loop of solve_for on rects[i]: lines 75-139.
\* placed is FALSE when no space holds the rect (solve_for returns false).
solve_for_step(pads, can_rotate, rs, sp, i) ==
    LET px == pads[1] * 2
        py == pads[2] * 2
        k == FirstFit(rs[i], sp, px, py, can_rotate)
        rot == FitTest(rs[i], sp[k], px, py, can_rotate).rotated
        placed == PlaceRect(rs[i], sp[k], pads, rot)
    IN  IF k = 0
        THEN [placed |-> FALSE, rects |-> rs, spaces |-> sp]
        ELSE [placed |-> TRUE,
              rects |-> [rs EXCEPT ![i] = placed],
              spaces |-> SplitSpace(sp, k, placed, px, py)]

\* --------------------------------------------------- solve, pre-checks

\* A size check that looks at the width alone.
TooBigWidthOnly(s, r) == r.size[1] + s.padding[1] * 2 > s.max_dims

\* Line 149: the padded rect exceeds max_dims on an axis.
TooBig(s, r) ==
    \/ r.size[1] + s.padding[1] * 2 > s.max_dims
    \/ r.size[2] + s.padding[2] * 2 > s.max_dims

RECURSIVE precheck_loop(_, _, _, _)
\* The loop of lines 148-153 from rect i on, acc the area summed so far.
precheck_loop(s, rs, i, acc) ==
    IF i > Len(rs) THEN [tooBig |-> FALSE, area |-> acc.val, ovf |-> acc.ovf]
    ELSE LET pw == rs[i].size[1] + s.padding[1] * 2
             ph == rs[i].size[2] + s.padding[2] * 2
             a == MulU32(pw, ph)
         IN  IF TooBig(s, rs[i])
             THEN [tooBig |-> TRUE, area |-> acc.val, ovf |-> acc.ovf]
             ELSE precheck_loop(s, rs, i + 1,
                                [val |-> acc.val + a.val,
                                 ovf |-> acc.ovf \/ a.ovf])

\* The area of the largest candidate canvas in place of max_dims squared.
given_area_of_max_pot(s) ==
    MulU32(PowF32(next_pot(s.max_dims)), PowF32(next_pot(s.max_dims)))

\* Line 155.
given_area(s) == MulU32(s.max_dims, s.max_dims)

\* Lines 147-160: what solve decides before the first placement attempt.
\* ovf: some product overflowed before the decision was reached.
precheck(s, rs) ==
    LET l == precheck_loop(s, rs, 1, [val |-> 0, ovf |-> FALSE])
    IN  IF l.tooBig
        THEN [ovf |-> l.ovf, err |-> "ImageIsTooBig", pot |-> 0, max_pot |-> 0]
        ELSE IF l.area > given_area(s).val
        THEN [ovf |-> l.ovf \/ given_area(s).ovf, err |-> "AreaIsTooBig",
              pot |-> 0, max_pot |-> 0]
        ELSE [ovf |-> l.ovf \/ given_area(s).ovf, err |-> "",
              pot |-> next_pot(SqrtF32(l.area)),
              max_pot |-> next_pot(s.max_dims)]

\* ------------------------------------------------ solve, as one call

RECURSIVE solve_for(_, _, _, _, _)
\* solve_for from rect i on, sp the free spaces left: lines 75-142.
solve_for(pads, can_rotate, rs, sp, i) ==
    IF i > Len(rs) THEN [ok |-> TRUE, rects |-> rs]
    ELSE LET st == solve_for_step(pads, can_rotate, rs, sp, i)
         IN  IF st.placed
             THEN solve_for(pads, can_rotate, st.rects, st.spaces, i + 1)
             ELSE [ok |-> FALSE, rects |-> rs]

RECURSIVE solve_loop(_, _, _, _)
\* The candidate loop of solve from exponent p on: lines 162-169.
solve_loop(s, rs, p, last) ==
    IF p > last THEN [result |-> Err("CannotFitOnOnePage"), rects |-> rs]
    ELSE LET dim0 == PowF32(p)
             a == solve_for(s.padding, s.can_rotate, rs,
                            <<Space(<<0, 0>>, <<dim0, dim0>>)>>, 1)
         IN  IF a.ok THEN [result |-> Ok(dim0), rects |-> a.rects]
             ELSE solve_loop(s, a.rects, p + 1, last)

\* Solver::solve: the result and the rects as it leaves them; ovf tells
\* that a build with overflow checks panics instead.
solve(s, rs) ==
    LET pre == precheck(s, rs)
        run == solve_loop(s, rs, pre.pot, pre.max_pot)
    IN  IF pre.err # ""
        THEN [ovf |-> pre.ovf, result |-> Err(pre.err), rects |-> rs]
        ELSE [ovf |-> pre.ovf, result |-> run.result, rects |-> run.rects]

\* -------------------------------------------------------------- state

VARIABLES
    solver,     \* the Solver: max_dims, padding, can_rotate
    input,      \* the rect list as the caller passed it to solve
    rects,      \* the rect list solve works on (&mut Vec<Rect<K>>)
    spaces,     \* solve_for: the free spaces of the current attempt
    idx,        \* solve_for: the index of the rect the 'outer loop is at
    pot,        \* solve: the exponent p of the current candidate
    max_pot,    \* solve: the last exponent tried
    dim,        \* solve: the side of the current candidate canvas
    spc,        \* where solve is: "call", "loop", "solve_for", "done"
    result      \* what solve returned

solverVars == <<solver, input, rects, spaces, idx, pot, max_pot, dim, spc, result>>

VARIABLES
    builder,    \* the AtlasBuilder: alive until a call consumes it
    loaders,    \* every Loader: obj, ready, and the GpuFuture it was made from
    pool,       \* rayon: the spawned jobs no thread has taken yet, oldest first
    jobs,       \* rayon: where each loader's spawned job is
    num_threads,\* rayon: the threads of the pool
    pc,         \* the calling thread: where it is
    ret,        \* the calling thread: what its last call returned
    arg,        \* the Loader the caller made to hand to add_loader, 0 if none
    dropping,   \* the Loaders the caller is dropping, the current one first
    keys,       \* build: the drained entries, the keys of rects
    min_dims,   \* build: the canvas size solve returned
    transient_image, \* build: the size of the canvas drawn into, <<>> if none
    output_image,    \* build: the size of the destination image, <<>> if none
    task,       \* build: the Loader<TextureAtlas> it returned, 0 if none
    wait_idx,   \* build task: the rect its wait loop is at
    draws,      \* build task: the draw calls issued, in order
    fence,      \* build task: the fence of the copy into output_image
    atlas,      \* build task: the TextureAtlas it made, <<>> if none
    held,       \* the Loaders the caller owns and may call methods of
    arc,        \* for each Loader, the Loader whose ready cell it shares
    takes,      \* for each Loader, the calls of take made on it
    atlases,    \* the TextureAtlas values the caller holds
    maps,       \* the region maps (Arc<HashMap>) the atlases refer to
    resolver,   \* the ImageResolver in use: "none", "atlas" or "directory"
    pooled,     \* DirectoryImageResolver: for each key, its Loader, 0 if none
    got,        \* the keys ImageResolver::get has returned a region for
    flushed     \* ImageResolver::flush has returned

buildVars == <<keys, min_dims, transient_image, output_image, task, wait_idx,
               draws, fence, atlas>>

callerVars == <<pc, ret, arg, dropping>>

poolVars == <<loaders, pool, jobs, num_threads>>

handleVars == <<held, arc, takes>>

sceneVars == <<atlases, maps, resolver, pooled, got, flushed>>

builderVars ==
    <<builder, poolVars, callerVars, buildVars, handleVars, sceneVars>>

vars == <<solverVars, builderVars>>

\* ---------------------------------------------------------- Loader

\* Caller-made loaders, the loaders build makes of Request entries (one per
\* rect index) and the loader build returns.
CallerLoaderIds == 1 .. MaxCallerLoaders
RequestLoaderId(i) == MaxCallerLoaders + i
TaskLoaderId == MaxCallerLoaders + MaxEntries + 1
LoaderIds == 1 .. TaskLoaderId

NoLoader ==
    [state |-> "unused", kind |-> "none", obj |-> "None", ready |-> FALSE,
     dims |-> <<0, 0>>, future |-> "none"]

\* Loader::with_gpu_future, lines 44-50: the value is stored at once, ready
\* is false, and the spawned job holds the future.
with_gpu_future(dims) ==
    [state |-> "live", kind |-> "gpu", obj |-> "Some", ready |-> FALSE,
     dims |-> dims, future |-> "recorded"]

\* Loader::with_closure, lines 60-63 and 76: the slot is empty, ready is
\* false; kind tells the closure (an image producer, or build's).
with_closure(kind, dims) ==
    [state |-> "live", kind |-> kind, obj |-> "None", ready |-> FALSE,
     dims |-> dims, future |-> "none"]

\* Loader::snapshot, line 110: a copy of the slot, whatever ready says.
snapshot(l) == loaders[l].obj

is_ready_always(l) == TRUE

\* Loader::is_ready, line 81: ready is an Arc, a clone reads the same cell.
is_ready(l) == loaders[arc[l]].ready

wait_returns_at_once(l) == TRUE

\* Loader::wait, lines 85-88: it returns once ready is true.
wait(l) == loaders[arc[l]].ready

\* ------------------------------------------------------ AtlasBuilder

\* AtlasBuilder::start, lines 156-166.
DefaultMaxDims == 1024
DefaultPadding == 2

start ==
    [alive |-> TRUE, max_dims |-> DefaultMaxDims,
     padding |-> <<DefaultPadding, DefaultPadding>>, can_rotate |-> TRUE,
     entries |-> <<>>]

\* A builder that a call took by value and dropped or drained.
Consumed(b) == [b EXCEPT !.alive = FALSE, !.entries = <<>>]

\* EntryImage, lines 88-92.  An Option is a sequence of at most one element.
Image == [tag |-> "Image", loader |-> 0, data |-> <<>>]
ImageLoader(l) == [tag |-> "ImageLoader", loader |-> l, data |-> <<>>]
Request(data) == [tag |-> "Request", loader |-> 0, data |-> data]

\* load_png_data_from_bytes, loader.rs lines 44-54: the header is read and
\* the whole frame is decoded into the pixel buffer before it returns.
load_image_data(d) == [dimensions |-> d, data |-> "pixels"]

BuilderEntry(name, dims, image) ==
    [name |-> name, dims |-> dims, image |-> image]

RECURSIVE LoadersOf(_)
\* The Loaders the entries own, in entry order.
LoadersOf(es) ==
    IF es = <<>> THEN <<>>
    ELSE (IF Head(es).image.tag = "ImageLoader"
          THEN <<Head(es).image.loader>> ELSE <<>>)
         \o LoadersOf(Tail(es))

\* AtlasBuilder::add_entry, lines 175-182: self is taken by value, so the
\* Err branch drops it with every entry it holds.
add_entry(b, entry) ==
    IF \E i \in 1 .. Len(b.entries) : b.entries[i].name = entry.name
    THEN [err |-> TRUE, builder |-> Consumed(b)]
    ELSE [err |-> FALSE,
          builder |-> [b EXCEPT !.entries = Append(b.entries, entry)]]

NoRet == [tag |-> "None", info |-> ""]
RetOk == [tag |-> "Ok", info |-> ""]
NameAlreadyInUse(name) == [tag |-> "NameAlreadyInUse", info |-> name]
SolverError(e) == [tag |-> "SolverError", info |-> e]
RetPanic == [tag |-> "Panic", info |-> ""]

\* Where the caller is once a call has handed it drops to do: each
\* Loader::drop waits (line 113), an empty list returns at once.
AfterDrops(drops, unwinding) ==
    IF drops # <<>> THEN (IF unwinding THEN "unwinding" ELSE "dropping")
    ELSE (IF unwinding THEN "panicked" ELSE "idle")

\* No atlas is held and no resolver is in use.
NoScene ==
    /\ atlases = <<>>
    /\ maps = <<>>
    /\ resolver = "none"
    /\ pooled = [k \in Names |-> 0]
    /\ got = {}
    /\ flushed = FALSE

\* The state of the builder, the pool and the caller before any of them
\* exists: what a run of the solver alone leaves untouched.
NoBuilder ==
    /\ builder = Consumed(start)
    /\ loaders = [l \in LoaderIds |-> NoLoader]
    /\ pool = {}
    /\ jobs = [l \in LoaderIds |-> "none"]
    /\ num_threads = 1
    /\ pc = "idle"
    /\ ret = NoRet
    /\ arg = 0
    /\ dropping = <<>>
    /\ keys = <<>>
    /\ min_dims = <<0, 0>>
    /\ transient_image = <<>>
    /\ output_image = <<>>
    /\ task = 0
    /\ wait_idx = 0
    /\ draws = <<>>
    /\ fence = "none"
    /\ atlas = <<>>
    /\ held = {}
    /\ arc = [l \in LoaderIds |-> l]
    /\ takes = [l \in LoaderIds |-> 0]
    /\ NoScene

SolverInit ==
    /\ solver \in {with_params(m, p, r) :
                      m \in MaxDimsChoices, p \in PadChoices, r \in BOOLEAN}
    /\ input \in RectLists
    /\ rects = input
    /\ spaces = <<>>
    /\ idx = 0
    /\ pot = 0
    /\ max_pot = 0
    /\ dim = 0
    /\ spc = "call"
    /\ result = NoResult
    /\ NoBuilder

\* solve, lines 147-160.  An overflowed product aborts a build with overflow
\* checks; a build without them goes on with the wrapped value.
SolvePrecheck ==
    /\ spc = "call"
    /\ LET pre == precheck(solver, rects)
       IN  \/ /\ pre.ovf
              /\ result' = Panic
              /\ spc' = "done"
              /\ UNCHANGED <<pot, max_pot>>
           \/ /\ pre.err # ""
              /\ result' = Err(pre.err)
              /\ spc' = "done"
              /\ UNCHANGED <<pot, max_pot>>
           \/ /\ pre.err = ""
              /\ pot' = pre.pot
              /\ max_pot' = pre.max_pot
              /\ spc' = "loop"
              /\ UNCHANGED result
    /\ UNCHANGED <<solver, input, rects, spaces, idx, dim>>
    /\ UNCHANGED builderVars

\* solve, lines 162-163: the next candidate, and line 70: its free space.
SolveCandidate ==
    /\ spc = "loop"
    /\ pot <= max_pot
    /\ dim' = PowF32(pot)
    /\ spaces' = <<Space(<<0, 0>>, <<PowF32(pot), PowF32(pot)>>)>>
    /\ idx' = 1
    /\ spc' = "solve_for"
    /\ UNCHANGED <<solver, input, rects, pot, max_pot, result>>
    /\ UNCHANGED builderVars

\* solve, line 169: every candidate failed.
SolveGiveUp ==
    /\ spc = "loop"
    /\ pot > max_pot
    /\ result' = Err("CannotFitOnOnePage")
    /\ spc' = "done"
    /\ UNCHANGED <<solver, input, rects, spaces, idx, pot, max_pot, dim>>
    /\ UNCHANGED builderVars

\* solve_for, lines 75-136: rects[idx] goes into the first space it fits.
SolveForPlace ==
    /\ spc = "solve_for"
    /\ idx <= Len(rects)
    /\ LET st == solve_for_step(solver.padding, solver.can_rotate, rects, spaces, idx)
       IN  /\ st.placed
           /\ rects' = st.rects
           /\ spaces' = st.spaces
    /\ idx' = idx + 1
    /\ UNCHANGED <<solver, input, pot, max_pot, dim, spc, result>>
    /\ UNCHANGED builderVars

\* solve_for, line 139: no space holds rects[idx]; solve goes to the next p.
SolveForFail ==
    /\ spc = "solve_for"
    /\ idx <= Len(rects)
    /\ ~solve_for_step(solver.padding, solver.can_rotate, rects, spaces, idx).placed
    /\ pot' = pot + 1
    /\ spc' = "loop"
    /\ UNCHANGED <<solver, input, rects, spaces, idx, max_pot, dim, result>>
    /\ UNCHANGED builderVars

\* solve_for, line 142, and solve, line 165: every rect is placed.
SolveForDone ==
    /\ spc = "solve_for"
    /\ idx > Len(rects)
    /\ result' = Ok(dim)
    /\ spc' = "done"
    /\ UNCHANGED <<solver, input, rects, spaces, idx, pot, max_pot, dim>>
    /\ UNCHANGED builderVars

SolverNext ==
    \/ SolvePrecheck
    \/ SolveCandidate
    \/ SolveGiveUp
    \/ SolveForPlace
    \/ SolveForFail
    \/ SolveForDone

SolverSpec == SolverInit /\ [][SolverNext]_vars

\* ------------------------------------------- the caller and the builder

Init ==
    /\ solver = with_params(0, <<0, 0>>, FALSE)
    /\ input = <<>>
    /\ rects = <<>>
    /\ spaces = <<>>
    /\ idx = 0
    /\ pot = 0
    /\ max_pot = 0
    /\ dim = 0
    /\ spc = "call"
    /\ result = NoResult
    /\ builder = start
    /\ loaders = [l \in LoaderIds |-> NoLoader]
    /\ pool = {}
    /\ jobs = [l \in LoaderIds |-> "none"]
    /\ num_threads \in 1 .. MaxThreads
    /\ pc = "idle"
    /\ ret = NoRet
    /\ arg = 0
    /\ dropping = <<>>
    /\ keys = <<>>
    /\ min_dims = <<0, 0>>
    /\ transient_image = <<>>
    /\ output_image = <<>>
    /\ task = 0
    /\ wait_idx = 0
    /\ draws = <<>>
    /\ fence = "none"
    /\ atlas = <<>>
    /\ held = {}
    /\ arc = [l \in LoaderIds |-> l]
    /\ takes = [l \in LoaderIds |-> 0]
    /\ NoScene

\* The caller is between calls and still holds the builder.
CanCall == pc = "idle" /\ builder.alive

\* An add_* call is offered while the builder has room, and always for a
\* name it already holds.
CanAdd(name) ==
    \/ Len(builder.entries) < MaxEntries
    \/ \E i \in 1 .. Len(builder.entries) : builder.entries[i].name = name

\* The caller-side loader the next creation takes.
FreeCallerLoaders == {l \in CallerLoaderIds : loaders[l].state = "unused"}

\* rayon::spawn: the job is handed to the pool, the caller goes on.
spawn(l) ==
    /\ pool' = pool \cup {l}
    /\ jobs' = [jobs EXCEPT ![l] = "queued"]

\* AtlasBuilder::set_max_dims, line 169, called before the entries are added.
SetMaxDims ==
    /\ CanCall
    /\ builder.entries = <<>>
    /\ builder.max_dims = DefaultMaxDims
    /\ \E s \in SetMaxDimsChoices : builder' = [builder EXCEPT !.max_dims = s]
    /\ UNCHANGED <<solverVars, poolVars, callerVars, buildVars>>
    /\ UNCHANGED handleVars
    /\ UNCHANGED sceneVars

\* AtlasBuilder::set_padding, line 170, called before the entries are added.
SetPadding ==
    /\ CanCall
    /\ builder.entries = <<>>
    /\ builder.padding = <<DefaultPadding, DefaultPadding>>
    /\ \E p \in SetPaddingChoices : builder' = [builder EXCEPT !.padding = p]
    /\ UNCHANGED <<solverVars, poolVars, callerVars, buildVars>>
    /\ UNCHANGED handleVars
    /\ UNCHANGED sceneVars

\* ImageContent::load_image: the image is created with its upload recorded in
\* a GpuFuture, and Loader::with_gpu_future spawns the job that flushes it.
LoadImage ==
    /\ CanCall
    /\ arg = 0
    /\ FreeCallerLoaders # {}
    /\ LET l == CHOOSE x \in FreeCallerLoaders :
                    \A y \in FreeCallerLoaders : x <= y
       IN  \E d \in LoadedImageDims :
               /\ loaders' = [loaders EXCEPT ![l] = with_gpu_future(d)]
               /\ spawn(l)
               /\ arg' = l
    /\ UNCHANGED <<solverVars, builder, num_threads, pc, ret, dropping, buildVars>>
    /\ UNCHANGED handleVars
    /\ UNCHANGED sceneVars

\* Loader::with_closure called by the caller with a closure that produces an
\* image: the slot is empty until the spawned job has run the closure.
SpawnImage ==
    /\ CanCall
    /\ arg = 0
    /\ FreeCallerLoaders # {}
    /\ LET l == CHOOSE x \in FreeCallerLoaders :
                    \A y \in FreeCallerLoaders : x <= y
       IN  \E d \in SpawnedImageDims :
               /\ loaders' = [loaders EXCEPT ![l] = with_closure("closure", d)]
               /\ spawn(l)
               /\ arg' = l
    /\ UNCHANGED <<solverVars, builder, num_threads, pc, ret, dropping, buildVars>>
    /\ UNCHANGED handleVars
    /\ UNCHANGED sceneVars

\* What an add_* call leaves once add_entry has run: the builder back with
\* the entry, or NameAlreadyInUse with the builder and the entry dropped
\* (the entry first, it is the later parameter).
AddReturns(name, entry) ==
    LET r == add_entry(builder, entry)
        drops == LoadersOf(<<entry>>) \o LoadersOf(builder.entries)
    IN  /\ builder' = r.builder
        /\ ret' = IF r.err THEN NameAlreadyInUse(name) ELSE RetOk
        /\ dropping' = IF r.err THEN drops ELSE <<>>
        /\ pc' = IF r.err THEN AfterDrops(drops, FALSE) ELSE "idle"

\* AtlasBuilder::add_image, lines 185-191.
AddImage ==
    /\ CanCall
    /\ \E name \in Names, d \in ImageDims :
           /\ CanAdd(name)
           /\ AddReturns(name, BuilderEntry(name, d, Image))
    /\ UNCHANGED <<solverVars, poolVars, arg, buildVars>>
    /\ UNCHANGED handleVars
    /\ UNCHANGED sceneVars

\* AtlasBuilder::add_data, lines 201-208: load_image_data decodes the bytes
\* in the call (loader.rs, lines 44-54), the entry holds the decoded PNGData.
AddData ==
    /\ CanCall
    /\ \E name \in Names, d \in DataImageDims :
           /\ CanAdd(name)
           /\ LET data == load_image_data(d)
              IN  AddReturns(name,
                      BuilderEntry(name, data.dimensions, Request(<<data>>)))
    /\ UNCHANGED <<solverVars, poolVars, arg, buildVars>>
    /\ UNCHANGED handleVars
    /\ UNCHANGED sceneVars

\* A read of the slot of l that is not ordered after the worker's write
\* (snapshot and clone do not look at ready): while the worker is about to
\* store the value the read races with the store, and a data race can give
\* the old slot, the new one, or neither.
ReadsOfSlot(l) ==
    IF jobs[l] = "value" THEN {"None", "Some", "Torn"} ELSE {loaders[l].obj}

\* AtlasBuilder::add_loader, lines 193-199: the size is read from a snapshot
\* of the loader, taken without a look at ready; unwrap of a snapshot that
\* holds no value panics, and the unwinding drops the loader and the builder.
AddLoader ==
    /\ CanCall
    /\ arg # 0
    /\ \E name \in Names, o \in ReadsOfSlot(arg) :
           /\ CanAdd(name)
           /\ IF o # "Some"
              THEN LET drops == <<arg>> \o LoadersOf(builder.entries)
                   IN  /\ builder' = Consumed(builder)
                       /\ ret' = RetPanic
                       /\ dropping' = drops
                       /\ pc' = AfterDrops(drops, TRUE)
              ELSE AddReturns(name,
                       BuilderEntry(name, loaders[arg].dims, ImageLoader(arg)))
    /\ arg' = 0
    /\ UNCHANGED <<solverVars, poolVars, buildVars>>
    /\ UNCHANGED handleVars
    /\ UNCHANGED sceneVars

\* AtlasBuilderResult::unwrap and unwrap_and_next, lines 121-122, on the Err
\* an add_* call returned: the only way to look at the result, and it panics.
UnwrapErr ==
    /\ pc = "idle"
    /\ ret.tag = "NameAlreadyInUse"
    /\ pc' = "panicked"
    /\ ret' = RetPanic
    /\ UNCHANGED <<solverVars, builder, poolVars, arg, dropping, buildVars>>
    /\ UNCHANGED handleVars
    /\ UNCHANGED sceneVars

drop_without_wait(l) == TRUE

\* Drop for Loader, line 113: self.wait(None) has to return before the
\* fields of the loader are released.
drop(l) == wait(l)

\* Loader::drop, line 113: the caller waits until the loader is ready, then
\* the loader is gone and the next drop, or the return, follows.
DropLoader ==
    /\ pc \in {"dropping", "unwinding"}
    /\ dropping # <<>>
    /\ drop(Head(dropping))
    /\ loaders' = [loaders EXCEPT ![Head(dropping)].state = "dropped"]
    /\ dropping' = Tail(dropping)
    /\ pc' = AfterDrops(Tail(dropping), pc = "unwinding")
    /\ UNCHANGED <<solverVars, builder, pool, jobs, num_threads, ret, arg, buildVars>>
    /\ UNCHANGED handleVars
    /\ UNCHANGED sceneVars

\* ---------------------------------------------------- AtlasBuilder::build

solve_failed_never(res) == FALSE

\* The `?` of line 229: an Err of solve leaves build at once.
solve_failed(res) == res.tag = "Err"

\* The rects build hands to the solver, lines 223-228: one per entry, of the
\* entry's dims, the entry itself as the key.
EntryRects(es) == [i \in 1 .. Len(es) |-> Rect(es[i].dims[1], es[i].dims[2])]

\* The rects whose key still holds the data of a Request, lines 261-265.
Requests(ks) ==
    {i \in 1 .. Len(ks) : ks[i].image.tag = "Request" /\ ks[i].image.data # <<>>}

\* Lines 261-272: each of them becomes an ImageLoader made of its upload.
ResolveRequests(ks) ==
    [i \in 1 .. Len(ks) |->
        IF i \in Requests(ks)
        THEN [ks[i] EXCEPT !.image = ImageLoader(RequestLoaderId(i))]
        ELSE ks[i]]

\* AtlasBuilder::build from line 232 on, or its return through `?`, given
\* what the solver returned: a failure drops the drained entries; otherwise
\* the requests are uploaded, the two images are allocated and the task is
\* spawned.
BuildReturns(es, res, aborts, failed, drops, reqs) ==
    /\ ret' = IF aborts THEN RetPanic
              ELSE IF failed THEN SolverError(res.err)
              ELSE RetOk
    /\ dropping' = IF failed THEN drops ELSE <<>>
    /\ pc' = IF failed THEN AfterDrops(drops, aborts) ELSE "idle"
    /\ keys' = IF failed THEN es ELSE ResolveRequests(es)
    /\ min_dims' = IF failed THEN min_dims ELSE res.dims
    /\ transient_image' = IF failed THEN <<>> ELSE res.dims
    /\ output_image' = IF failed THEN <<>> ELSE res.dims
    /\ task' = IF failed THEN 0 ELSE TaskLoaderId
    /\ held' = IF failed THEN held ELSE {TaskLoaderId}
    /\ loaders' =
           IF failed THEN loaders
           ELSE [l \in LoaderIds |->
                   IF l = TaskLoaderId
                   THEN with_closure("build", res.dims)
                   ELSE IF \E i \in reqs : l = RequestLoaderId(i)
                   THEN LET i == CHOOSE j \in reqs : l = RequestLoaderId(j)
                        IN  with_gpu_future(es[i].image.data[1].dimensions)
                   ELSE loaders[l]]
    /\ pool' = IF failed THEN pool
               ELSE pool \cup {RequestLoaderId(i) : i \in reqs}
                         \cup {TaskLoaderId}
    /\ jobs' = IF failed THEN jobs
               ELSE [l \in LoaderIds |->
                       IF \/ l = TaskLoaderId
                          \/ \E i \in reqs : l = RequestLoaderId(i)
                       THEN "queued" ELSE jobs[l]]

\* AtlasBuilder::build, lines 211-231: the solver is made of the builder's
\* parameters and run on the drained entries.  An overflowed product in solve
\* aborts the call in a build with overflow checks.
BuildSolves(s, rs, r) ==
    \E aborts \in (IF r.ovf THEN BOOLEAN ELSE {FALSE}) :
        /\ solver' = s
        /\ input' = rs
        /\ rects' = IF aborts THEN rs ELSE r.rects
        /\ result' = IF aborts THEN Panic ELSE r.result
        /\ spc' = "done"
        /\ BuildReturns(builder.entries,
                        IF aborts THEN Panic ELSE r.result,
                        aborts,
                        aborts \/ solve_failed(r.result),
                        LoadersOf(builder.entries),
                        Requests(builder.entries))

\* AtlasBuilder::build, lines 211-351, on the calling thread.
Build ==
    /\ CanCall
    /\ arg = 0
    /\ BuildSolves(with_params(builder.max_dims, builder.padding, builder.can_rotate),
                   EntryRects(builder.entries),
                   solve(with_params(builder.max_dims, builder.padding,
                                     builder.can_rotate),
                         EntryRects(builder.entries)))
    /\ builder' = Consumed(builder)
    /\ UNCHANGED <<spaces, idx, pot, max_pot, dim, num_threads, arg,
                   wait_idx, draws, fence, atlas, arc, takes,
                   sceneVars>>

\* ------------------------------------------------------- the rayon pool

\* A job holds a thread from the step that takes it from the pool to its end.
Running(l) == jobs[l] \notin {"none", "queued", "done", "panicked"}

FreeThread == Cardinality({l \in LoaderIds : Running(l)}) < num_threads

\* The job of with_gpu_future, lines 46-49: the future is flushed, which
\* submits it and does not wait for it, and ready is set.
GpuLoaderJob ==
    /\ FreeThread
    /\ \E l \in pool :
           /\ loaders[l].kind = "gpu"
           /\ loaders' = [loaders EXCEPT ![l].future = "flushed",
                                         ![l].ready = TRUE]
           /\ pool' = pool \ {l}
           /\ jobs' = [jobs EXCEPT ![l] = "done"]
    /\ UNCHANGED <<solverVars, builder, num_threads, callerVars, buildVars>>
    /\ UNCHANGED handleVars
    /\ UNCHANGED sceneVars

\* The job of with_closure, line 69, for a closure that produces an image.
ClosureFunc ==
    /\ FreeThread
    /\ \E l \in pool :
           /\ loaders[l].kind = "closure"
           /\ pool' = pool \ {l}
           /\ jobs' = [jobs EXCEPT ![l] = "value"]
    /\ UNCHANGED <<solverVars, builder, loaders, num_threads, callerVars, buildVars>>
    /\ UNCHANGED handleVars
    /\ UNCHANGED sceneVars

\* with_closure, lines 70-71: the value goes into the slot.
ClosureWrite ==
    /\ \E l \in LoaderIds :
           /\ jobs[l] = "value"
           /\ loaders' = [loaders EXCEPT ![l].obj = "Some"]
           /\ jobs' = [jobs EXCEPT ![l] = "written"]
    /\ UNCHANGED <<solverVars, builder, pool, num_threads, callerVars, buildVars>>
    /\ UNCHANGED handleVars
    /\ UNCHANGED sceneVars

\* with_closure, line 72: ready is set, the job ends.
ClosureFlag ==
    /\ \E l \in LoaderIds :
           /\ jobs[l] = "written"
           /\ loaders' = [loaders EXCEPT ![l].ready = TRUE]
           /\ jobs' = [jobs EXCEPT ![l] = "done"]
    /\ UNCHANGED <<solverVars, builder, pool, num_threads, callerVars, buildVars>>
    /\ UNCHANGED handleVars
    /\ UNCHANGED sceneVars

\* The upload a flushed future submitted completes on the GPU.
GpuUploadDone ==
    /\ \E l \in LoaderIds :
           /\ loaders[l].future = "flushed"
           /\ loaders' = [loaders EXCEPT ![l].future = "complete"]
    /\ UNCHANGED <<solverVars, builder, pool, jobs, num_threads, callerVars, buildVars>>
    /\ UNCHANGED handleVars
    /\ UNCHANGED sceneVars

\* ------------------------------------------------ the task build spawned

\* The closure of line 305 starts on a pool thread.
BuildTaskStart ==
    /\ FreeThread
    /\ TaskLoaderId \in pool
    /\ pool' = pool \ {TaskLoaderId}
    /\ jobs' = [jobs EXCEPT ![TaskLoaderId] = "wait"]
    /\ wait_idx' = 1
    /\ UNCHANGED <<solverVars, builder, loaders, num_threads, callerVars, keys,
                   min_dims, transient_image, output_image, task, draws, fence,
                   atlas>>
    /\ UNCHANGED handleVars
    /\ UNCHANGED sceneVars

\* Lines 308-317, one turn of the loop: an Image needs no wait, an ImageLoader
\* is waited on.
BuildTaskAwait ==
    /\ jobs[TaskLoaderId] = "wait"
    /\ wait_idx <= Len(keys)
    /\ \/ keys[wait_idx].image.tag = "Image"
       \/ /\ keys[wait_idx].image.tag = "ImageLoader"
          /\ wait(keys[wait_idx].image.loader)
    /\ wait_idx' = wait_idx + 1
    /\ UNCHANGED <<solverVars, builder, poolVars, callerVars, keys, min_dims,
                   transient_image, output_image, task, draws, fence, atlas>>
    /\ UNCHANGED handleVars
    /\ UNCHANGED sceneVars

\* Lines 320-346: one draw per rect from a snapshot of its image, then the
\* copy into output_image is submitted with a fence.  The unwrap of an empty
\* snapshot (line 243) ends the job without a value.
BuildTaskRender ==
    /\ jobs[TaskLoaderId] = "wait"
    /\ wait_idx > Len(keys)
    /\ IF \E i \in 1 .. Len(keys) :
              /\ keys[i].image.tag = "ImageLoader"
              /\ snapshot(keys[i].image.loader) = "None"
       THEN /\ jobs' = [jobs EXCEPT ![TaskLoaderId] = "panicked"]
            /\ UNCHANGED <<draws, fence>>
       ELSE /\ draws' = [i \in 1 .. Len(rects) |->
                            [image |-> keys[i].name, pos |-> rects[i].pos,
                             size |-> rects[i].size, rotated |-> rects[i].rotated]]
            /\ fence' = "submitted"
            /\ jobs' = [jobs EXCEPT ![TaskLoaderId] = "fence"]
    /\ UNCHANGED <<solverVars, builder, loaders, pool, num_threads, callerVars,
                   keys, min_dims, transient_image, output_image, task, wait_idx,
                   atlas>>
    /\ UNCHANGED handleVars
    /\ UNCHANGED sceneVars

\* The GPU finishes the copy and signals its fence.
GpuSignalFence ==
    /\ fence = "submitted"
    /\ fence' = "signaled"
    /\ UNCHANGED <<solverVars, builder, poolVars, callerVars, keys, min_dims,
                   transient_image, output_image, task, wait_idx, draws, atlas>>
    /\ UNCHANGED handleVars
    /\ UNCHANGED sceneVars

fence_wait_returns_at_once(f) == TRUE

fence_wait_never(f) == FALSE

\* FenceSignalFuture::wait(None), line 347: it returns once the fence has
\* signaled.
fence_wait(f) == f = "signaled"

\* f32 values as fractions in lowest terms.  The canvas sides are powers of
\* two far below 2^24 and the operands are integers below them, so every
\* quotient, product, sum and difference from_rect computes is exact in f32.
RECURSIVE Gcd(_, _)
Gcd(a, b) == IF b = 0 THEN a ELSE Gcd(b, a % b)

Abs(a) == IF a < 0 THEN 0 - a ELSE a

F32(n, d) ==
    LET g == Gcd(Abs(n), d)
    IN  [n |-> n \div g, d |-> d \div g]

\* An f32 operation has its operands as values: each is evaluated once.
F32Mul(a, b) ==
    CHOOSE r \in {F32(p[1].n * p[2].n, p[1].d * p[2].d) : p \in {<<a, b>>}} :
        TRUE

F32Add(a, b) ==
    CHOOSE r \in {F32(p[1].n * p[2].d + p[2].n * p[1].d, p[1].d * p[2].d) :
                     p \in {<<a, b>>}} :
        TRUE

F32Sub(a, b) ==
    CHOOSE r \in {F32(p[1].n * p[2].d - p[2].n * p[1].d, p[1].d * p[2].d) :
                     p \in {<<a, b>>}} :
        TRUE

from_rect_unflipped(rect, w, h) ==
    LET iw == F32(1, w)
        ih == F32(1, h)
        u0 == F32Mul(F32(rect.pos[1], 1), iw)
        u1 == F32Add(u0, F32Mul(F32(rect.size[1], 1), iw))
        v0 == F32Mul(F32(rect.pos[2], 1), ih)
        v1 == F32Add(v0, F32Mul(F32(rect.size[2], 1), ih))
    IN  [uv_a |-> <<u0, v0>>, uv_b |-> <<u1, v1>>]

\* TextureRegion::from_rect, lines 371-397.
from_rect(rect, w, h) ==
    LET iw == F32(1, w)
        ih == F32(1, h)
        u0 == F32Mul(F32(rect.pos[1], 1), iw)
        u1 == F32Add(u0, F32Mul(F32(rect.size[1], 1), iw))
        v0 == F32Mul(F32(rect.pos[2], 1), ih)
        v1 == F32Add(v0, F32Mul(F32(rect.size[2], 1), ih))
    IN  [uv_a |-> <<F32Sub(F32(1, 1), u0), F32Sub(F32(1, 1), v0)>>,
         uv_b |-> <<F32Sub(F32(1, 1), u1), F32Sub(F32(1, 1), v1)>>]

TextureAtlas_new_but_last(image, regions, ks) ==
    [image |-> image,
     regions |-> [i \in 1 .. Len(regions) - 1 |->
                     [name |-> ks[i].name,
                      region |-> from_rect(regions[i], image[1], image[2])]]]

\* TextureAtlas::new, lines 496-514: one region per rect under the name of
\* its key, its UVs taken against the size of the image; the rects are
\* drained, which drops their entries.
TextureAtlas_new(image, regions, ks) ==
    [image |-> image,
     regions |-> [i \in 1 .. Len(regions) |->
                     [name |-> ks[i].name,
                      region |-> from_rect(regions[i], image[1], image[2])]]]

\* TextureAtlas::get, line 526: the region collected last under the name,
\* if any.
get(a, name) ==
    LET at == {i \in 1 .. Len(a.regions) : a.regions[i].name = name}
    IN  IF at = {} THEN <<>>
        ELSE <<a.regions[CHOOSE i \in at : \A j \in at : j <= i].region>>

\* Lines 347-349: the wait on the fence returns and the atlas is made; it
\* is the value the closure returns.
BuildTaskNew ==
    /\ jobs[TaskLoaderId] = "fence"
    /\ fence_wait(fence)
    /\ atlas' = TextureAtlas_new(output_image, rects, keys)
    /\ loaders' = [l \in LoaderIds |->
                      IF \E i \in 1 .. Len(keys) :
                             /\ keys[i].image.tag = "ImageLoader"
                             /\ keys[i].image.loader = l
                      THEN [loaders[l] EXCEPT !.state = "dropped"]
                      ELSE loaders[l]]
    /\ jobs' = [jobs EXCEPT ![TaskLoaderId] = "value"]
    /\ UNCHANGED <<solverVars, builder, pool, num_threads, callerVars, keys,
                   min_dims, transient_image, output_image, task, wait_idx,
                   draws, fence>>
    /\ UNCHANGED handleVars
    /\ UNCHANGED sceneVars

\* ------------------------------------------- the caller and its Loaders

\* The caller is between calls and owns the loader.
Owns(l) == pc = "idle" /\ l \in held /\ loaders[l].state = "live"

\* What a method of Loader l returned.
Returned(call, l, value) == [tag |-> call, info |-> value, of |-> l]

\* A method of Loader l panicked.
Panicked(call, l) == [tag |-> "Panic", info |-> call, of |-> l]

RECURSIVE SeqOf(_)
\* The loaders of a set, lowest first: the order the caller's locals are
\* dropped in is not what any property here depends on.
SeqOf(S) ==
    IF S = {} THEN <<>>
    ELSE LET x == CHOOSE y \in S : \A z \in S : y <= z
         IN  <<x>> \o SeqOf(S \ {x})

\* get_ref and take, lines 92 and 98: wait is called unless is_ready says
\* the loader is ready, so they go on exactly when one of the two lets them.
AfterReady(l) == is_ready(l) \/ wait(l)

\* The caller panics in a method of l: the unwinding drops every Loader it
\* owns.
CallerPanics(call, l) ==
    /\ ret' = Panicked(call, l)
    /\ dropping' = SeqOf(held)
    /\ pc' = AfterDrops(SeqOf(held), TRUE)
    /\ held' = {}

\* Loader::is_ready, line 81.
IsReady ==
    /\ \E l \in held :
           /\ Owns(l)
           /\ ret' = Returned("is_ready", l, IF is_ready(l) THEN "true" ELSE "false")
    /\ UNCHANGED <<solverVars, builder, poolVars, pc, arg, dropping, buildVars,
                   handleVars, sceneVars>>

\* Loader::wait, lines 85-88: spins until ready, whatever the timeout, and
\* returns Ok.
Wait ==
    /\ \E l \in held, timeout \in {"None", "Some"} :
           /\ Owns(l)
           /\ wait(l)
           /\ ret' = [tag |-> "wait", info |-> "Ok", of |-> l,
                      timeout |-> timeout]
    /\ UNCHANGED <<solverVars, builder, poolVars, pc, arg, dropping, buildVars,
                   handleVars, sceneVars>>

\* Loader::snapshot, line 110: a clone of the slot; ready is not looked at.
Snapshot ==
    /\ \E l \in held :
           /\ Owns(l)
           /\ \E o \in ReadsOfSlot(l) : ret' = Returned("snapshot", l, o)
    /\ UNCHANGED <<solverVars, builder, poolVars, pc, arg, dropping, buildVars,
                   handleVars, sceneVars>>

\* Loader::get_ref, lines 91-94: a reference to the value once ready; the
\* unwrap panics on an empty slot.
GetRef ==
    /\ \E l \in held :
           /\ Owns(l)
           /\ AfterReady(l)
           /\ IF loaders[l].obj = "None"
              THEN CallerPanics("get_ref", l)
              ELSE /\ ret' = Returned("get_ref", l, loaders[l].obj)
                   /\ UNCHANGED <<pc, dropping, held>>
    /\ UNCHANGED <<solverVars, builder, poolVars, arg, buildVars, arc, takes,
                   sceneVars>>

\* Loader::take, lines 97-100: once ready the value is moved out and the slot
\* is left None; the unwrap panics on an empty slot.
Take ==
    /\ \E l \in held :
           /\ Owns(l)
           /\ AfterReady(l)
           /\ takes' = [takes EXCEPT ![l] = @ + 1]
           /\ IF loaders[l].obj = "None"
              THEN /\ CallerPanics("take", l)
                   /\ UNCHANGED loaders
              ELSE /\ ret' = Returned("take", l, loaders[l].obj)
                   /\ loaders' = [loaders EXCEPT ![l].obj = "None"]
                   /\ UNCHANGED <<pc, dropping, held>>
    /\ UNCHANGED <<solverVars, builder, pool, jobs, num_threads, arg, buildVars,
                   arc, sceneVars>>

\* Loader::clone, derived, line 33: a new Box holding a clone of the slot as
\* it is read now, and the same ready cell.  The worker keeps writing into
\* the Box of the loader it was spawned for.
Clone ==
    /\ FreeCallerLoaders # {}
    /\ \E l \in held :
           /\ Owns(l)
           /\ LET c == CHOOSE x \in FreeCallerLoaders :
                           \A y \in FreeCallerLoaders : x <= y
              IN  /\ \E o \in ReadsOfSlot(l) :
                         loaders' = [loaders EXCEPT ![c] =
                             [loaders[l] EXCEPT !.obj = o, !.future = "none"]]
                  /\ arc' = [arc EXCEPT ![c] = arc[l]]
                  /\ held' = held \cup {c}
                  /\ ret' = Returned("clone", l, "")
    /\ UNCHANGED <<solverVars, builder, pool, jobs, num_threads, pc, arg,
                   dropping, buildVars, takes, sceneVars>>

\* The caller lets go of a Loader it owns: Loader::drop runs, line 113.
DropHandle ==
    /\ \E l \in held :
           /\ Owns(l)
           /\ dropping' = <<l>>
           /\ pc' = "dropping"
           /\ held' = held \ {l}
           /\ ret' = Returned("drop", l, IF is_ready(l) THEN "ready" ELSE "pending")
    /\ UNCHANGED <<solverVars, builder, poolVars, arg, buildVars, arc, takes,
                   sceneVars>>

Next ==
    \/ SetMaxDims
    \/ SetPadding
    \/ LoadImage
    \/ SpawnImage
    \/ AddImage
    \/ AddData
    \/ AddLoader
    \/ UnwrapErr
    \/ DropLoader
    \/ Build
    \/ GpuLoaderJob
    \/ ClosureFunc
    \/ ClosureWrite
    \/ ClosureFlag
    \/ GpuUploadDone
    \/ BuildTaskStart
    \/ BuildTaskAwait
    \/ BuildTaskRender
    \/ GpuSignalFence
    \/ BuildTaskNew
    \/ IsReady
    \/ Snapshot
    \/ GetRef
    \/ Take

Spec == Init /\ [][Next]_vars

\* ------------------------------------- a caller that adds images only

\* The calls of a caller whose entries are all images it already holds, and
\* what it does with the task build returns.
ReadyBuildNext ==
    \/ SetMaxDims
    \/ SetPadding
    \/ AddImage
    \/ UnwrapErr
    \/ Build
    \/ IsReady
    \/ Snapshot
    \/ GetRef
    \/ Take

\* A thread of the rayon pool takes the queued job of build when it is free
\* and runs it to its end.
PoolStep ==
    \/ BuildTaskStart
    \/ BuildTaskAwait
    \/ BuildTaskRender
    \/ BuildTaskNew
    \/ ClosureWrite
    \/ ClosureFlag

\* The threads of the pool and the GPU keep running.
ReadyBuildSpec ==
    /\ Init
    /\ [][ReadyBuildNext \/ PoolStep \/ GpuSignalFence]_vars
    /\ WF_vars(PoolStep)
    /\ WF_vars(GpuSignalFence)

\* ------------------------------------------------- one Loader on its own

\* A loader fresh from one of its two constructors, owned by the caller, its
\* job spawned; no builder.
LoaderInit ==
    /\ solver = with_params(0, <<0, 0>>, FALSE)
    /\ input = <<>>
    /\ rects = <<>>
    /\ spaces = <<>>
    /\ idx = 0
    /\ pot = 0
    /\ max_pot = 0
    /\ dim = 0
    /\ spc = "call"
    /\ result = NoResult
    /\ builder = Consumed(start)
    /\ \E made \in {with_gpu_future(d) : d \in LoadedImageDims}
                  \cup {with_closure("closure", d) : d \in SpawnedImageDims} :
           loaders = [l \in LoaderIds |-> IF l = 1 THEN made ELSE NoLoader]
    /\ pool = {1}
    /\ jobs = [l \in LoaderIds |-> IF l = 1 THEN "queued" ELSE "none"]
    /\ num_threads \in 1 .. MaxThreads
    /\ pc = "idle"
    /\ ret = NoRet
    /\ arg = 0
    /\ dropping = <<>>
    /\ keys = <<>>
    /\ min_dims = <<0, 0>>
    /\ transient_image = <<>>
    /\ output_image = <<>>
    /\ task = 0
    /\ wait_idx = 0
    /\ draws = <<>>
    /\ fence = "none"
    /\ atlas = <<>>
    /\ held = {1}
    /\ arc = [l \in LoaderIds |-> l]
    /\ takes = [l \in LoaderIds |-> 0]
    /\ NoScene

LoaderNext ==
    \/ GpuLoaderJob
    \/ ClosureFunc
    \/ ClosureWrite
    \/ ClosureFlag
    \/ GpuUploadDone
    \/ IsReady
    \/ Wait
    \/ Snapshot
    \/ GetRef
    \/ Take
    \/ Clone
    \/ DropHandle
    \/ DropLoader

LoaderSpec == LoaderInit /\ [][LoaderNext]_vars

\* ============================================================ claims
\* Solver::solve, checked under SolverSpec.

Max(a, b) == IF a >= b THEN a ELSE b
Min(a, b) == IF a <= b THEN a ELSE b

Solved == spc = "done" /\ result.tag = "Ok"

RECURSIVE TotalPaddedArea(_, _)
\* The sum over the rects of (w + 2 pad_x) * (h + 2 pad_y), in the integers.
TotalPaddedArea(rs, pads) ==
    IF rs = <<>> THEN 0
    ELSE (Head(rs).size[1] + 2 * pads[1]) * (Head(rs).size[2] + 2 * pads[2])
         + TotalPaddedArea(Tail(rs), pads)

InputArea == TotalPaddedArea(input, solver.padding)

\* The side of the first candidate canvas of solve.
FirstCandidate == PowF32(next_pot(SqrtF32(InputArea)))

\* [pos - padding, pos + size + padding) on both axes.
PaddedBox(r, pads) ==
    [x0 |-> r.pos[1] - pads[1], x1 |-> r.pos[1] + r.size[1] + pads[1],
     y0 |-> r.pos[2] - pads[2], y1 |-> r.pos[2] + r.size[2] + pads[2]]

\* The two half-open boxes share a point.
Overlap(a, b) ==
    /\ Max(a.x0, b.x0) < Min(a.x1, b.x1)
    /\ Max(a.y0, b.y0) < Min(a.y1, b.y1)

\* C1: after a successful solve no two rects' padded bounding boxes
\* [pos - padding, pos + size + padding) overlap on the returned canvas.
C1_NoOverlap ==
    Solved =>
        \A i, j \in 1 .. Len(rects) :
            i < j => ~Overlap(PaddedBox(rects[i], solver.padding),
                              PaddedBox(rects[j], solver.padding))

\* A successful solve of several padded rects whose first candidates failed.
C1_Witness ==
    /\ Solved
    /\ Len(rects) >= 2
    /\ solver.padding # <<0, 0>>
    /\ result.dims[1] > FirstCandidate

\* C2 as claimed: after a successful solve every rect has
\* pos + size + 2 * padding <= canvas size on both axes.
C2_AsClaimed ==
    Solved =>
        \A i \in 1 .. Len(rects) : \A k \in 1 .. 2 :
            rects[i].pos[k] + rects[i].size[k] + 2 * solver.padding[k]
                <= result.dims[k]

\* C2 (amended): after a successful solve every rect's padded box lies in the
\* canvas: pos - padding >= 0 and pos + size + padding <= canvas size on both
\* axes (pos already holds one padding).
C2_PaddedBoxInCanvas ==
    Solved =>
        \A i \in 1 .. Len(rects) : \A k \in 1 .. 2 :
            /\ rects[i].pos[k] - solver.padding[k] >= 0
            /\ rects[i].pos[k] + rects[i].size[k] + solver.padding[k]
                   <= result.dims[k]

\* A successful solve with a padded rect that touches the canvas edge.
C2_Witness ==
    /\ Solved
    /\ \E i \in 1 .. Len(rects) : \E k \in 1 .. 2 :
          /\ solver.padding[k] > 0
          /\ rects[i].pos[k] + rects[i].size[k] + solver.padding[k]
                 = result.dims[k]

IsPot(d) == \E e \in 0 .. 30 : d = 2 ^ e

\* The smallest power of two that is >= sqrt(a), for a < 2^30.
SmallestPotSide(a) ==
    LET pots == {2 ^ e : e \in 0 .. 15}
    IN  CHOOSE d \in pots : d * d >= a /\ \A c \in pots : c * c >= a => d <= c

\* C3: a successful solve returns a square canvas whose side is a power of
\* two and at least the smallest power of two >= sqrt(total padded area).
C3_PotCanvas ==
    Solved =>
        /\ result.dims[1] = result.dims[2]
        /\ IsPot(result.dims[1])
        /\ result.dims[1] >= SmallestPotSide(InputArea)

\* A successful solve whose first candidate was below sqrt(total padded area).
C3_Witness ==
    /\ Solved
    /\ Len(rects) >= 2
    /\ FirstCandidate * FirstCandidate < InputArea

\* C4 as claimed: a successful solve returns a canvas whose side does not
\* exceed max_dims.
C4_WithinMaxDims == Solved => result.dims[1] <= solver.max_dims

\* The padded size of input[i] on axis k, in the integers.
PaddedSide(i, k) == input[i].size[k] + 2 * solver.padding[k]

AnyTooBig ==
    \E i \in 1 .. Len(input) : \E k \in 1 .. 2 :
        PaddedSide(i, k) > solver.max_dims

\* C5: if some rect's padded size exceeds max_dims on an axis, solve returns
\* ImageIsTooBig and no rect's pos, size or rotated field is changed.
C5_ImageIsTooBig ==
    AnyTooBig =>
        /\ rects = input
        /\ spc = "done" => result = Err("ImageIsTooBig")

\* solve returned ImageIsTooBig for a list whose first rect is not too big.
C5_Witness ==
    /\ spc = "done"
    /\ result = Err("ImageIsTooBig")
    /\ Len(input) >= 2
    /\ \A k \in 1 .. 2 : PaddedSide(1, k) <= solver.max_dims

\* a > m * m in the integers, for a < 2^30.
ExceedsSquare(a, m) == IF m >= 32768 THEN FALSE ELSE a > m * m

\* C6: if no rect is too big but the padded areas sum to more than
\* max_dims * max_dims, solve returns AreaIsTooBig and no rect's pos, size or
\* rotated field is changed.
C6_AreaIsTooBig ==
    (~AnyTooBig /\ ExceedsSquare(InputArea, solver.max_dims)) =>
        /\ rects = input
        /\ spc = "done" => result = Err("AreaIsTooBig")

\* solve returned AreaIsTooBig for rects that each fit max_dims.
C6_Witness ==
    /\ spc = "done"
    /\ result = Err("AreaIsTooBig")
    /\ ~AnyTooBig
    /\ ExceedsSquare(InputArea, solver.max_dims)

\* The step-wise run of solve and the one-call operator agree.
SolveAgrees ==
    (spc = "done" /\ result.tag # "Panic") =>
        /\ result = solve(solver, input).result
        /\ rects = solve(solver, input).rects

\* C7 as claimed: solve never aborts; it returns Ok or one of the three
\* SolverError values.
C7_NeverAborts == spc = "done" => result.tag \in {"Ok", "Err"}

\* ------------------------------------------------------------------
\* AtlasBuilder, checked under Spec.

\* The entry of the given name the builder holds, if the builder is still
\* there to be used.
Registered(name) ==
    /\ builder.alive
    /\ \E i \in 1 .. Len(builder.entries) : builder.entries[i].name = name

\* C8: when an add_* call finds its name already registered it returns
\* NameAlreadyInUse, and the builder stays usable with the first registration
\* of that name still in it.
C8_FirstRegistrationUsable ==
    ret.tag = "NameAlreadyInUse" => Registered(ret.info)

\* The solver build ran returned an error.
PackerFailed == spc = "done" /\ result.tag = "Err"

RequestKeys == {i \in 1 .. Len(keys) : keys[i].image.tag = "Request"}

\* Nothing of build's second phase has happened: no upload of a request was
\* started, neither image was allocated, no task was spawned.
NothingStarted ==
    /\ \A i \in RequestKeys :
           /\ keys[i].image.data # <<>>
           /\ loaders[RequestLoaderId(i)].state = "unused"
           /\ jobs[RequestLoaderId(i)] = "none"
    /\ transient_image = <<>>
    /\ output_image = <<>>
    /\ task = 0
    /\ loaders[TaskLoaderId].state = "unused"
    /\ jobs[TaskLoaderId] = "none"

\* The bytes of the request are still undecoded.
Undecoded(e) ==
    \A k \in 1 .. Len(e.image.data) : e.image.data[k].data # "pixels"

LoaderKeys == {i \in 1 .. Len(keys) : keys[i].image.tag = "ImageLoader"}

\* C10: the task build returned is ready only once every per-entry loader is
\* ready and the fence of the copy into the destination image has signaled.
C10_ReadyAfterEntriesAndFence ==
    loaders[TaskLoaderId].ready =>
        /\ \A i \in LoaderKeys : loaders[keys[i].image.loader].ready
        /\ fence = "signaled"

\* The task is ready for an atlas of two entries, one the caller's loader and
\* one a request build turned into a loader.
C10_Witness ==
    /\ task = TaskLoaderId
    /\ loaders[TaskLoaderId].ready
    /\ \E i, j \in LoaderKeys :
           /\ keys[i].image.loader \in CallerLoaderIds
           /\ keys[j].image.loader = RequestLoaderId(j)

\* ------------------------------------------------------------------
\* The task build returns, checked under Spec.

\* Every rect has been drawn onto the canvas where the solver put it, and the
\* copy of the canvas into the destination image has completed.
Composited ==
    /\ Len(draws) = Len(keys)
    /\ \A i \in 1 .. Len(keys) :
           /\ draws[i].image = keys[i].name
           /\ draws[i].pos = rects[i].pos
           /\ draws[i].size = rects[i].size
    /\ fence = "signaled"

\* The caller's last call showed it the atlas, or that the atlas is there.
SawAtlas ==
    /\ ret.tag \in {"is_ready", "snapshot", "get_ref", "take"}
    /\ ret.of = TaskLoaderId
    /\ ret.info \notin {"false", "None"}

\* C11: an atlas can be observed through the task build returned (the slot
\* holds it, the flag says so, or is_ready, snapshot, get_ref or take showed
\* it) only if every entry has been drawn and the copy has completed.
C11_NoPartialAtlas ==
    (\/ loaders[TaskLoaderId].obj # "None"
     \/ loaders[TaskLoaderId].ready
     \/ SawAtlas) => Composited

\* snapshot handed the caller the atlas of two entries before the task was
\* flagged ready.
C11_Witness ==
    /\ ret.tag = "snapshot"
    /\ ret.of = TaskLoaderId
    /\ ret.info = "Some"
    /\ ~loaders[TaskLoaderId].ready
    /\ Len(keys) = 2

\* ------------------------------------------------------------------
\* The regions of the atlas, checked under Spec.

\* A name no caller of the model registers.
OtherName == "z"

RegisteredNames == {keys[i].name : i \in 1 .. Len(keys)}

InUnit(f) == 0 <= f.n /\ f.n <= f.d

\* C12: after a successful build get(name) returns a region exactly for the
\* registered names, None for any other, and the four UV components of every
\* region lie in [0, 1].
C12_RegionsOfRegisteredNames ==
    atlas # <<>> =>
        \A name \in Names \cup {OtherName} :
            /\ (get(atlas, name) # <<>>) <=> (name \in RegisteredNames)
            /\ \A k \in 1 .. Len(get(atlas, name)) :
                   \A c \in 1 .. 2 :
                       /\ InUnit(get(atlas, name)[k].uv_a[c])
                       /\ InUnit(get(atlas, name)[k].uv_b[c])

\* The task is ready with an atlas of two regions, away from the origin, and
\* one of the caller's names is not in it.
C12_Witness ==
    /\ atlas # <<>>
    /\ loaders[TaskLoaderId].ready
    /\ Len(keys) = 2
    /\ rects[2].pos # <<0, 0>>
    /\ \E name \in Names : name \notin RegisteredNames

\* f = n / d, compared without the arithmetic of the model.
IsRatio(f, n, d) == f.n * d = n * f.d

\* C13: a rect at (x, y) of size (w, h) in a canvas (W, H) gets
\* uv_a = (1 - x/W, 1 - y/H) and uv_b = (1 - (x+w)/W, 1 - (y+h)/H); at (0, 0)
\* with size (W/2, H/2) that is uv_a = (1, 1) and uv_b = (1/2, 1/2).
C13_FlippedUV ==
    atlas # <<>> =>
        \A i \in 1 .. Len(keys) :
            LET r == get(atlas, keys[i].name)[1]
                W == min_dims[1]
                H == min_dims[2]
                x == rects[i].pos[1]
                y == rects[i].pos[2]
                w == rects[i].size[1]
                h == rects[i].size[2]
            IN  /\ IsRatio(r.uv_a[1], W - x, W)
                /\ IsRatio(r.uv_a[2], H - y, H)
                /\ IsRatio(r.uv_b[1], W - (x + w), W)
                /\ IsRatio(r.uv_b[2], H - (y + h), H)
                /\ (x = 0 /\ y = 0 /\ 2 * w = W /\ 2 * h = H) =>
                       /\ r.uv_a = <<[n |-> 1, d |-> 1], [n |-> 1, d |-> 1]>>
                       /\ r.uv_b = <<[n |-> 1, d |-> 2], [n |-> 1, d |-> 2]>>

\* An atlas with a rect at the origin that is half the canvas each way, and
\* another rect away from the origin.
C13_Witness ==
    /\ atlas # <<>>
    /\ Len(keys) = 2
    /\ rects[1].pos = <<0, 0>>
    /\ 2 * rects[1].size[1] = min_dims[1]
    /\ 2 * rects[1].size[2] = min_dims[2]
    /\ rects[2].pos # <<0, 0>>

\* ------------------------------------------------------------------
\* Loader, checked under LoaderSpec.

\* The worker has stored the value of l, or l was made with its value.
FilledBefore(l) ==
    \/ jobs[l] \in {"written", "done"}
    \/ loaders[l].kind = "gpu" /\ jobs[l] # "none"

\* C14: the value slot of a loader goes from empty to filled once and never
\* returns to empty, whatever the caller calls.
C14_NeverBackToEmpty ==
    \A l \in LoaderIds :
        (loaders[l].state = "live" /\ FilledBefore(l)) => loaders[l].obj # "None"

\* C15: snapshot returns None when the loader is not ready and a copy of the
\* value when it is, and changes nothing of the loader.
C15_SnapshotFollowsReady ==
    [][(ret'.tag = "snapshot" /\ ret' # ret) =>
          /\ ret'.info = (IF loaders[arc[ret'.of]].ready THEN "Some" ELSE "None")
          /\ loaders' = loaders]_vars

\* C16: a second take on a loader ends in an error result: it does not abort
\* the caller and it returns no value.
C16_SecondTakeIsError ==
    /\ ~(ret.tag = "Panic" /\ ret.info = "take" /\ takes[ret.of] >= 2)
    /\ ret.tag = "take" => takes[ret.of] = 1

\* C17: wait, get_ref and take have returned only with the ready flag true,
\* and wait has returned Ok whatever timeout it was given.
C17_ReturnOnlyWhenReady ==
    /\ ret.tag \in {"wait", "get_ref", "take"} => loaders[arc[ret.of]].ready
    /\ ret.tag = "wait" => ret.info = "Ok"

\* wait was given a timeout and has returned for a loader made of a closure.
C17_Witness ==
    /\ ret.tag = "wait"
    /\ ret.timeout = "Some"
    /\ loaders[ret.of].kind = "closure"
    /\ loaders[arc[ret.of]].ready

\* C18: a loader is released only after the job that writes its slot and its
\* flag has finished: the worker never writes into a released loader.
C18_DropIsBarrier ==
    \A l \in LoaderIds :
        loaders[l].state = "dropped" => jobs[arc[l]] = "done"

\* The caller started to drop a loader of a closure that was not ready, and
\* the drop has completed.
C18_Witness ==
    /\ pc = "idle"
    /\ ret.tag = "drop"
    /\ ret.info = "pending"
    /\ loaders[ret.of].kind = "closure"
    /\ loaders[ret.of].state = "dropped"

\* ------------------------------------------------------------------
\* A build of images only, with threads and a GPU that keep running
\* (ReadyBuildSpec).

\* Every entry of the build is an image, or a loader that is ready.
ReadyEntries ==
    \A i \in 1 .. Len(keys) :
        \/ keys[i].image.tag = "Image"
        \/ /\ keys[i].image.tag = "ImageLoader"
           /\ loaders[keys[i].image.loader].ready

PendingEntries(b) ==
    {i \in 1 .. Len(b.entries) :
        /\ b.entries[i].image.tag = "ImageLoader"
        /\ ~loaders[b.entries[i].image.loader].ready}

\* C20: a call of a builder that holds entries with loaders not yet ready,
\* a setter, an add_* (also one that returns NameAlreadyInUse) or a build that
\* returns SolverError, returns without the caller waiting for a loader.
C20_BuilderCallsNeverBlock ==
    [][(/\ builder.alive
        /\ PendingEntries(builder) # {}
        /\ builder' # builder
        /\ ret'.tag \in {"Ok", "NameAlreadyInUse", "SolverError"})
           => pc' = "idle"]_vars

\* ------------------------------------------------------------------
\* solve_for, one rect at a time (SolverSpec).

\* A rect of this size with its padding is no larger than the space.
FitsIn(size, space, px, py) ==
    size[1] + px <= space.size[1] /\ size[2] + py <= space.size[2]

Swapped(size) == <<size[2], size[1]>>

\* The spaces that hold the rect as it is, or turned when that is allowed.
SpacesFor(rect, sp, px, py, can_rotate) ==
    {i \in 1 .. Len(sp) :
        \/ FitsIn(rect.size, sp[i], px, py)
        \/ can_rotate /\ FitsIn(Swapped(rect.size), sp[i], px, py)}

\* solve_for is about to look for a space for rects[idx].
AtRect == spc = "solve_for" /\ idx <= Len(rects)

\* C21: the rect goes into the first space that holds it in an orientation
\* that is allowed, rotated exactly when rotation is allowed and that space
\* holds it only when turned; with rotation not allowed no rect is rotated.
C21_RotatedWhenOnlyRotatedFits ==
    [][AtRect =>
        LET px == solver.padding[1] * 2
            py == solver.padding[2] * 2
            fit == SpacesFor(rects[idx], spaces, px, py, solver.can_rotate)
            k == CHOOSE i \in fit : \A j \in fit : i <= j
        IN  /\ fit # {} =>
                /\ idx' = idx + 1
                /\ rects'[idx].rotated =
                       (/\ solver.can_rotate
                        /\ ~FitsIn(rects[idx].size, spaces[k], px, py)
                        /\ FitsIn(Swapped(rects[idx].size), spaces[k], px, py))
                /\ rects'[idx].rotated =>
                       rects'[idx].size = Swapped(rects[idx].size)
            /\ ~solver.can_rotate =>
                   \A i \in 1 .. Len(rects') : ~rects'[i].rotated]_vars

\* C22: an attempt takes the rects in input order; each goes to the origin,
\* plus padding, of the first space of the list it fits into, the other rects
\* and the order unchanged, and the attempt fails at the first rect that fits
\* no space.
C22_InputOrderFirstFit ==
    [][/\ (spc = "loop" /\ spc' = "solve_for") => idx' = 1
       /\ AtRect =>
            LET px == solver.padding[1] * 2
                py == solver.padding[2] * 2
                fit == {i \in 1 .. Len(spaces) :
                           FitsIn(rects[idx].size, spaces[i], px, py)}
                k == CHOOSE i \in fit : \A j \in fit : i <= j
            IN  IF fit = {}
                THEN spc' = "loop" /\ rects' = rects
                ELSE /\ spc' = "solve_for"
                     /\ idx' = idx + 1
                     /\ rects'[idx].pos =
                            <<spaces[k].pos[1] + solver.padding[1],
                              spaces[k].pos[2] + solver.padding[2]>>
                     /\ Len(rects') = Len(input)
                     /\ \A i \in 1 .. Len(rects) :
                            /\ rects'[i].size = input[i].size
                            /\ i # idx => rects'[i] = rects[i]]_vars

\* The second rect went past the first space of the list, too low for it,
\* into the second one.
C22_Witness ==
    /\ spc = "solve_for"
    /\ idx = 3
    /\ solver.padding = <<0, 0>>
    /\ rects[1].pos = <<0, 0>>
    /\ rects[1].size = <<3, 3>>
    /\ rects[2].size = <<1, 3>>
    /\ rects[2].pos = <<3, 0>>
    /\ spaces[1] = Space(<<0, 3>>, <<3, 1>>)

\* The box a placed rect takes with its padding on every side.
PaddedSpace(r) ==
    Space(<<r.pos[1] - solver.padding[1], r.pos[2] - solver.padding[2]>>,
          <<r.size[1] + 2 * solver.padding[1], r.size[2] + 2 * solver.padding[2]>>)

BoxesDisjoint(a, b) ==
    \/ a.pos[1] + a.size[1] <= b.pos[1]
    \/ b.pos[1] + b.size[1] <= a.pos[1]
    \/ a.pos[2] + a.size[2] <= b.pos[2]
    \/ b.pos[2] + b.size[2] <= a.pos[2]

BoxInCanvas(a) ==
    /\ a.pos[1] >= 0 /\ a.pos[2] >= 0
    /\ a.size[1] > 0 /\ a.size[2] > 0
    /\ a.pos[1] + a.size[1] <= dim
    /\ a.pos[2] + a.size[2] <= dim

RECURSIVE AreaSum(_)
AreaSum(boxes) ==
    IF boxes = <<>> THEN 0
    ELSE Head(boxes).size[1] * Head(boxes).size[2] + AreaSum(Tail(boxes))

\* The padded boxes of the rects the attempt has placed so far.
PlacedBoxes == [i \in 1 .. idx - 1 |-> PaddedSpace(rects[i])]

\* C28: at every step of an attempt the free spaces are pairwise disjoint,
\* inside the canvas and disjoint from the padded box of every placed rect,
\* and the free areas and the placed padded areas add up to the canvas area.
C28_SpacesPartitionCanvas ==
    spc = "solve_for" =>
        /\ \A i \in 1 .. Len(spaces) : BoxInCanvas(spaces[i])
        /\ \A i, j \in 1 .. Len(spaces) :
               i # j => BoxesDisjoint(spaces[i], spaces[j])
        /\ \A i \in 1 .. Len(spaces) : \A j \in 1 .. idx - 1 :
               BoxesDisjoint(spaces[i], PlacedBoxes[j])
        /\ AreaSum(spaces) + AreaSum(PlacedBoxes) = dim * dim

\* An attempt in which a space was split in two, the bottom remainder was
\* used up by the next rect and the right remainder was cut by the third.
C28_Witness ==
    /\ spc = "solve_for"
    /\ idx = 4
    /\ Len(spaces) = 1
    /\ solver.padding = <<0, 0>>
    /\ dim = 4
    /\ rects[1].size = <<3, 3>>
    /\ rects[2].size = <<3, 1>>
    /\ rects[3].size = <<1, 3>>

\* ------------------------------------------------------------------
\* Loader again (LoaderSpec).

\* C23: a loader made by with_gpu_future is not ready before the GPU has
\* completed what its future stands for.
C23_ReadyAfterCompletion ==
    \A l \in LoaderIds :
        (loaders[l].kind = "gpu" /\ loaders[l].future # "none"
         /\ loaders[l].ready)
            => loaders[l].future = "complete"

\* C24: a clone is the same loader as its original: whenever it was made, it
\* is ready when the original is, and from then on it holds the value the
\* work produced, as the original does, unless one of them gave it away.
C24_CloneIsSameLoader ==
    \A c \in LoaderIds :
        (loaders[c].state = "live" /\ arc[c] # c)
            => /\ is_ready(c) = loaders[arc[c]].ready
               /\ (loaders[arc[c]].ready /\ takes[c] = 0 /\ takes[arc[c]] = 0)
                      => loaders[c].obj = "Some"

\* ------------------------------------------------- TextureAtlas in use

MaxAtlases == 3

\* The samplers a caller has at hand; build's default is simple_repeat
\* (mod.rs, lines 214-215).
Samplers == {"simple_repeat", "nearest"}

\* No solver is running.
NoSolver ==
    /\ solver = with_params(0, <<0, 0>>, FALSE)
    /\ input = <<>>
    /\ rects = <<>>
    /\ spaces = <<>>
    /\ idx = 0
    /\ pot = 0
    /\ max_pot = 0
    /\ dim = 0
    /\ spc = "call"
    /\ result = NoResult

\* No loader and no job.
NoLoaders ==
    /\ loaders = [l \in LoaderIds |-> NoLoader]
    /\ pool = {}
    /\ jobs = [l \in LoaderIds |-> "none"]

\* No builder and no call under way: the caller alone.
NoCalls ==
    /\ builder = Consumed(start)
    /\ num_threads \in 1 .. MaxThreads
    /\ pc = "idle"
    /\ ret = NoRet
    /\ arg = 0
    /\ dropping = <<>>
    /\ keys = <<>>
    /\ min_dims = <<0, 0>>
    /\ transient_image = <<>>
    /\ output_image = <<>>
    /\ task = 0
    /\ wait_idx = 0
    /\ draws = <<>>
    /\ fence = "none"
    /\ atlas = <<>>
    /\ held = {}
    /\ arc = [l \in LoaderIds |-> l]
    /\ takes = [l \in LoaderIds |-> 0]

\* The entries of the atlases looked at: one or two images.
AtlasEntryLists ==
    {<<BuilderEntry("a", d, Image)>> : d \in ImageDims}
    \cup {<<BuilderEntry("a", d, Image), BuilderEntry("b", e, Image)>> :
             d \in ImageDims, e \in ImageDims}

\* The map TextureAtlas::new collects, lines 501-507 and 512: each region
\* holds its UVs, the atlas image and the sampler (from_rect, lines 391-396).
RegionMap(a, sampler) ==
    [i \in 1 .. Len(a.regions) |->
        [name |-> a.regions[i].name,
         uv_a |-> a.regions[i].region.uv_a,
         uv_b |-> a.regions[i].region.uv_b,
         texture |-> a.image,
         sampler |-> sampler]]

\* The TextureAtlas of lines 508-513, its map behind the Arc numbered ref.
TextureAtlas(a, sampler, ref) ==
    [uniform |-> <<>>, image |-> a.image, sampler |-> sampler, regions |-> ref]

\* The atlas build makes of the entries with the builder's defaults.
BuiltAtlas(es) ==
    LET r == solve(with_params(DefaultMaxDims,
                               <<DefaultPadding, DefaultPadding>>, TRUE),
                   EntryRects(es))
    IN  TextureAtlas_new(r.result.dims, r.rects, es)

\* Clone for TextureAtlas, lines 481-490: no uniform, the Arcs are cloned.
TextureAtlas_clone(self) == [self EXCEPT !.uniform = <<>>]

\* TextureAtlas::recreate_uniform, line 517.
recreate_uniform(self) == [self EXCEPT !.uniform = <<>>]

set_sampler_of_regions(self, m, sampler) ==
    [atlas |-> recreate_uniform([self EXCEPT !.sampler = sampler]),
     maps |-> [m EXCEPT ![self.regions] =
                  [i \in 1 .. Len(@) |-> [@[i] EXCEPT !.sampler = sampler]]]]

\* TextureAtlas::set_sampler, lines 520-523, with the maps as it leaves them.
set_sampler(self, m, sampler) ==
    [atlas |-> recreate_uniform([self EXCEPT !.sampler = sampler]),
     maps |-> m]

\* TextureAtlas::get_uniform, lines 539-549: the descriptor set of the image
\* and the sampler is made when there is none and kept.
get_uniform(self) ==
    IF self.uniform = <<>>
    THEN [self EXCEPT !.uniform = <<[image |-> self.image,
                                     sampler |-> self.sampler]>>]
    ELSE self

\* TextureAtlas::get, line 526, through the Arc of the atlas.
TextureAtlas_get(self, m, key) ==
    LET at == {i \in 1 .. Len(m[self.regions]) : m[self.regions][i].name = key}
    IN  IF at = {} THEN <<>>
        ELSE <<m[self.regions][CHOOSE i \in at : \A j \in at : j <= i]>>

\* The caller holds the atlas a build has made.
AtlasInit ==
    /\ NoSolver
    /\ NoLoaders
    /\ NoCalls
    /\ \E es \in AtlasEntryLists :
           /\ atlases = <<TextureAtlas(BuiltAtlas(es), "simple_repeat", 1)>>
           /\ maps = <<RegionMap(BuiltAtlas(es), "simple_repeat")>>
    /\ resolver = "none"
    /\ pooled = [k \in Names |-> 0]
    /\ got = {}
    /\ flushed = FALSE

AtlasUnchanged ==
    UNCHANGED <<solverVars, builder, poolVars, pc, arg, dropping, buildVars,
                handleVars, resolver, pooled, got, flushed>>

AtlasClone ==
    /\ Len(atlases) < MaxAtlases
    /\ \E i \in 1 .. Len(atlases) :
           /\ atlases' = Append(atlases, TextureAtlas_clone(atlases[i]))
           /\ ret' = Returned("clone", i, "")
    /\ UNCHANGED maps
    /\ AtlasUnchanged

AtlasSetSampler ==
    /\ \E i \in 1 .. Len(atlases), s \in Samplers :
           LET r == set_sampler(atlases[i], maps, s)
           IN  /\ atlases' = [atlases EXCEPT ![i] = r.atlas]
               /\ maps' = r.maps
               /\ ret' = Returned("set_sampler", i, s)
    /\ AtlasUnchanged

AtlasRecreateUniform ==
    /\ \E i \in 1 .. Len(atlases) :
           /\ atlases' = [atlases EXCEPT ![i] = recreate_uniform(atlases[i])]
           /\ ret' = Returned("recreate_uniform", i, "")
    /\ UNCHANGED maps
    /\ AtlasUnchanged

AtlasGetUniform ==
    /\ \E i \in 1 .. Len(atlases) :
           /\ atlases' = [atlases EXCEPT ![i] = get_uniform(atlases[i])]
           /\ ret' = Returned("get_uniform", i, get_uniform(atlases[i]).uniform)
    /\ UNCHANGED maps
    /\ AtlasUnchanged

AtlasGet ==
    /\ \E i \in 1 .. Len(atlases), key \in {"a", "b"} :
           ret' = Returned("get", i, TextureAtlas_get(atlases[i], maps, key))
    /\ UNCHANGED <<atlases, maps>>
    /\ AtlasUnchanged

AtlasNext ==
    \/ AtlasClone
    \/ AtlasSetSampler
    \/ AtlasRecreateUniform
    \/ AtlasGetUniform
    \/ AtlasGet

AtlasSpec == AtlasInit /\ [][AtlasNext]_vars

\* ------------------------------------------------------------------
\* TextureAtlas (AtlasSpec).

\* C25: a clone, set_sampler and recreate_uniform change the cached uniform
\* only, and set_sampler the sampler of its atlas: the image and the region
\* map of every atlas, each region's UVs, texture and sampler included, stay
\* as they are, and a clone shares them with its original.
C25_OnlyUniformChanges ==
    [][/\ maps' = maps
       /\ \A i \in 1 .. Len(atlases) :
              /\ atlases'[i].image = atlases[i].image
              /\ atlases'[i].regions = atlases[i].regions
              /\ atlases'[i].sampler # atlases[i].sampler =>
                     (ret'.tag = "set_sampler" /\ ret'.of = i)
       /\ \A i \in Len(atlases) + 1 .. Len(atlases') :
              /\ atlases'[i].image = atlases[ret'.of].image
              /\ atlases'[i].regions = atlases[ret'.of].regions
              /\ atlases'[i].sampler = atlases[ret'.of].sampler]_vars

\* A clone was given another sampler than its original and has its uniform,
\* and a region was looked up through it.
C25_Witness ==
    /\ Len(atlases) >= 2
    /\ atlases[1].sampler # atlases[2].sampler
    /\ atlases[2].uniform # <<>>
    /\ ret.tag = "get"
    /\ ret.of = 2
    /\ ret.info # <<>>

\* ------------------------------------------------------ ImageResolver

\* The task whose value the atlas of an AtlasImageResolver was: build's, run
\* to its end (AtlasImageResolver::new takes the atlas, lines 417-419).
BuildTaskDone(dims) ==
    [with_closure("build", dims) EXCEPT !.obj = "Some", !.ready = TRUE]

\* A resolver as generate_object is given it: an AtlasImageResolver over the
\* regions of an atlas, or a DirectoryImageResolver with nothing pooled
\* (DirectoryImageResolver::new, lines 437-444).
ResolverInit ==
    /\ NoSolver
    /\ NoCalls
    /\ pool = {}
    /\ \/ /\ resolver = "directory"
          /\ atlases = <<>>
          /\ maps = <<>>
          /\ loaders = [l \in LoaderIds |-> NoLoader]
          /\ jobs = [l \in LoaderIds |-> "none"]
       \/ /\ resolver = "atlas"
          /\ \E es \in AtlasEntryLists :
                 /\ atlases = <<TextureAtlas(BuiltAtlas(es), "simple_repeat", 1)>>
                 /\ maps = <<RegionMap(BuiltAtlas(es), "simple_repeat")>>
                 /\ loaders = [l \in LoaderIds |->
                                  IF l = TaskLoaderId
                                  THEN BuildTaskDone(BuiltAtlas(es).image)
                                  ELSE NoLoader]
          /\ jobs = [l \in LoaderIds |->
                        IF l = TaskLoaderId THEN "done" ELSE "none"]
    /\ pooled = [k \in Names |-> 0]
    /\ got = {}
    /\ flushed = FALSE

ResolverUnchanged ==
    UNCHANGED <<solverVars, builder, num_threads, pc, arg, dropping, buildVars,
                handleVars, atlases, maps, resolver>>

\* AtlasImageResolver::get, lines 421-424: the region of the key in the
\* atlas's map, if there is one.
AtlasResolverGet ==
    /\ resolver = "atlas"
    /\ \E key \in Names :
           LET region == TextureAtlas_get(atlases[1], maps, key)
           IN  /\ ret' = Returned("get", key, region)
               /\ got' = IF region = <<>> THEN got ELSE got \cup {key}
    /\ flushed' = FALSE
    /\ UNCHANGED <<poolVars, pooled>>
    /\ ResolverUnchanged

\* DirectoryImageResolver::get, lines 447-468: a key not pooled yet is loaded
\* by load_image, whose loader holds the image at once and spawns the job
\* that flushes the upload; the region is made of a snapshot of it and both
\* are pooled. The pooled region is returned.
DirectoryResolverGet ==
    /\ resolver = "directory"
    /\ \E key \in Names :
           /\ IF pooled[key] = 0
              THEN /\ FreeCallerLoaders # {}
                   /\ LET l == CHOOSE x \in FreeCallerLoaders :
                                   \A y \in FreeCallerLoaders : x <= y
                      IN  \E d \in LoadedImageDims :
                              /\ loaders' = [loaders EXCEPT ![l] = with_gpu_future(d)]
                              /\ spawn(l)
                              /\ pooled' = [pooled EXCEPT ![key] = l]
              ELSE UNCHANGED <<loaders, pool, jobs, pooled>>
           /\ ret' = Returned("get", key, pooled'[key])
           /\ got' = got \cup {key}
    /\ flushed' = FALSE
    /\ ResolverUnchanged

\* ImageResolver::flush, line 410: the default body, which neither resolver
\* overrides, is empty. flushed records that the call has returned with
\* nothing got since.
ResolverFlush ==
    /\ resolver # "none"
    /\ flushed' = TRUE
    /\ ret' = Returned("flush", 0, "")
    /\ UNCHANGED <<poolVars, pooled, got>>
    /\ ResolverUnchanged

ResolverNext ==
    \/ AtlasResolverGet
    \/ DirectoryResolverGet
    \/ ResolverFlush
    \/ GpuLoaderJob
    \/ GpuUploadDone

ResolverSpec == ResolverInit /\ [][ResolverNext]_vars

\* ------------------------------------------------------------------
\* ImageResolver (ResolverSpec).

\* The task that loads the image of the region got for a key: the pooled
\* loader of a DirectoryImageResolver, build's task for an atlas.
LoadTaskOf(key) == IF resolver = "directory" THEN pooled[key] ELSE TaskLoaderId

\* C26: once flush has returned, the load task of the image of every region
\* got before is ready.
C26_FlushedMeansLoaded ==
    flushed => \A key \in got : is_ready(LoadTaskOf(key))

\* ------------------------------------------------------------------
\* add_loader with a task that is not ready (Spec).

\* C27: add_loader given a loader in any state gets its dimensions and
\* returns; it does not fail for the loader being not ready.
C27_AddLoaderTakesPending ==
    [][(arg # 0 /\ arg' = 0 /\ ~is_ready(arg)) => ret' # RetPanic]_vars

\* ------------------------------------------------------------------
\* Reads of the slot against the job's store (LoaderSpec).

\* The job of a with_closure loader has not stored the value yet.
NotWritten(l) == loaders[l].kind = "closure" /\ jobs[l] \in {"queued", "value"}

\* C29: snapshot, get_ref, take and clone read the slot of a loader only
\* after its job has stored the value.
C29_ReadsFollowTheWrite ==
    [][(/\ ret' # ret
        /\ ret'.tag \in {"snapshot", "get_ref", "take", "clone"})
       => ~NotWritten(ret'.of)]_vars

\* ------------------------------------------------------------------
\* Tasks run to their end (FairSpec).

\* Fair scheduling: a pool thread that can take or continue a job does so,
\* the GPU executes what was submitted to it, and the caller's thread goes on
\* with the drops it is in.  rayon gives no order among the queued jobs, so
\* the fairness is that of each kind of job on its own.
FairSpec ==
    /\ Init
    /\ [][Next]_vars
    /\ WF_vars(GpuLoaderJob)
    /\ WF_vars(ClosureFunc)
    /\ WF_vars(ClosureWrite)
    /\ WF_vars(ClosureFlag)
    /\ WF_vars(GpuUploadDone)
    /\ WF_vars(BuildTaskStart)
    /\ WF_vars(BuildTaskAwait)
    /\ WF_vars(BuildTaskRender)
    /\ WF_vars(BuildTaskNew)
    /\ WF_vars(GpuSignalFence)
    /\ WF_vars(DropLoader)

\* C30: every spawned task becomes ready in the end, so that every wait on it
\* returns, also when its job waits on other tasks in a pool of num_threads
\* threads.
C30_EveryTaskBecomesReady ==
    \A l \in LoaderIds : (jobs[l] = "queued") ~> loaders[l].ready

====
